---- MODULE Spec2Model ----
(***************************************************************************)
(* Collaborative whiteboard of the Image-Processing-Tool.                  *)
(*                                                                         *)
(*   src/collab_server.py : the dispatcher (Socket.IO handlers connect,    *)
(*       disconnect, on_operation), the canonical store CANV_STATE and the *)
(*       HTTP upload side channel (upload_file, serve_upload).             *)
(*   src/main.py, open_whiteboard : one whiteboard per client with its     *)
(*       canvas (wb_img, attachments, text_objects), its history           *)
(*       (wb_history, history_index) and its Socket.IO client              *)
(*       (connect_collab, on_init_state, on_operation,                     *)
(*       emit_collab_operation).                                           *)
(*                                                                         *)
(* Python dictionaries are records with a fixed field set; a key that is   *)
(* absent from the dictionary holds the "absent" value of its field        *)
(* (0, "", << >>), which is also what dict.get(key) treats as falsy.       *)
(***************************************************************************)
EXTENDS Integers, Sequences, FiniteSets, TLC

\* ------------------------------------------------------------ bounds
MaxInputs == 4     \* events from outside: connecting, disconnecting, pointer
                   \* events, file choices, what other participants send
MaxEdits == 35     \* the texts placed on a whiteboard that stands alone: five
                   \* more than its history keeps
MaxConversions == 12  \* the conversions of a photo in the main editor: two
                      \* more than its history keeps

\* ------------------------------------------------------------ program constants
HISTORY_LIMIT == 30
DEFAULT_WIDTH == 4

Clients == {"A"}            \* the whiteboard under study
Ext == "peer"               \* any other participant: it sends what a client can
                            \* put on the wire, and what reaches it is kept in
                            \* toClient
Owners == Clients \cup {Ext}
Modes == {"Pen", "Eraser", "Text", "Line", "Move"}
DEFAULT_COLOR == "#000000"
ERASER_FILL == "(255, 255, 255, 0)"   \* the transparent fill of the eraser
NoImg == ""                 \* the dictionary has no 'img' key
Files == {"imgA"}           \* contents of the files a user can pick

\* ------------------------------------------------------------ payloads
EmptyDict ==
  [id |-> 0, points |-> << >>, color |-> "", width |-> 0, mode |-> "",
   url |-> 0, name |-> 0, text |-> "", x |-> 0]

StrokePayload(pts, c, w, m, id) ==
  [EmptyDict EXCEPT !.points = pts, !.color = c, !.width = w, !.mode = m, !.id = id]

AttachPayload(id, url, name) ==
  [EmptyDict EXCEPT !.id = id, !.url = url, !.name = name]

UploadRecord(url, name) ==
  [EmptyDict EXCEPT !.url = url, !.name = name]

TextPayload(id, txt) ==
  [EmptyDict EXCEPT !.id = id, !.text = txt]

\* data of an 'operation' event: isdict is FALSE for a message that is not a
\* dictionary; haspayload is FALSE when the 'payload' key is absent.
OpData(t, p) == [isdict |-> TRUE, type |-> t, haspayload |-> TRUE, payload |-> p]
NoPayloadData(t) == [isdict |-> TRUE, type |-> t, haspayload |-> FALSE, payload |-> EmptyDict]
NotADict == [isdict |-> FALSE, type |-> "", haspayload |-> FALSE, payload |-> EmptyDict]

\* data.get('payload', {})
GetPayload(data) == IF data.haspayload THEN data.payload ELSE EmptyDict

EmptyState == [strokes |-> << >>, attachments |-> << >>, texts |-> << >>]

\* Events on the wire.  k is not part of the wire format: for init_state it is the
\* number of journal entries the snapshot was taken after, for operation the sid
\* the server received the operation from.
InitStateMsg(state, k) ==
  [event |-> "init_state", data |-> NotADict, state |-> state, k |-> k]
OperationMsg(data, from) ==
  [event |-> "operation", data |-> data, state |-> EmptyState, k |-> from]

VARIABLES
  CANV_STATE,       \* server: the canonical store
  store,            \* server: UPLOAD_DIR, store[name] is the content saved under name
  conns,            \* conns[sid] = [owner, state, joined]: every connection opened
                    \* so far; joined is the length of journal when the server
                    \* sent it the snapshot
  toServer,         \* toServer[sid]: 'operation' events sent on sid, not yet handled
  toClient,         \* toClient[sid]: events emitted to sid, not yet received
  http,             \* the last answer of POST /upload, n counts the requests served
  collab_sio,       \* client: the sid of its Socket.IO client, 0 for None
  collab_connected, \* client: the flag set by the connect/disconnect events
  tkq,              \* client: callbacks queued with wb.after(0, _apply)
  wb_img,           \* client: the drawing layer, the sequence of primitives drawn
  attachments,      \* client: the attachment list
  text_objects,     \* client: the text list
  wb_history,       \* client: the history snapshots
  history_index,    \* client: the pointer into wb_history (0-based as in the code)
  discarded,        \* history: the snapshots above the pointer that the latest
                    \* push_history dropped
  mode_var,         \* client: the mode selector
  drawing,          \* client: the drag state
  nextId,           \* client: the number of uuid4 values it generated
  inputs,           \* the number of inputs made so far
  journal,          \* history: what the server accepted, in order
  sent,             \* history: sent[sid], the data sent on sid, in order
  applied,          \* history: applied[c], the operations c applied, in order
  self_img,         \* editor: self.img, the committed image
  original_img,     \* editor: self.original_img
  img_history,      \* editor: self.img_history
  current_temp_img, \* editor: self.current_temp_img, the preview
  cancel_event,     \* editor: the threading.Event of the advanced Apply
  worker,           \* editor: the thread _bg of the advanced Apply
  afterq,           \* editor: callbacks queued with self.after(1, ...)
  edits             \* history: the images the editor held before each committed
                    \* edit that has not been undone, oldest first

serverVars == <<CANV_STATE, store, http>>
netVars == <<conns, toServer, toClient>>
collabVars == <<collab_sio, collab_connected, tkq>>
canvasVars == <<wb_img, attachments, text_objects, wb_history, history_index, discarded>>
uiVars == <<mode_var, drawing>>
histVars == <<journal, sent, applied>>
editorVars ==
  <<self_img, original_img, img_history, current_temp_img, cancel_event, worker, afterq,
    edits>>
\* the whiteboard, its connection and the server
wbVars == <<serverVars, netVars, collabVars, canvasVars, uiVars, nextId, histVars>>
vars == <<wbVars, inputs, editorVars>>

Sids == 1..Len(conns)
Live == {s \in Sids : conns[s].state = "open"}

\* ============================================================ helpers
Last(q) == q[Len(q)]

IsPrefix(p, q) == Len(p) <= Len(q) /\ SubSeq(q, 1, Len(p)) = p

RECURSIVE SeqToSet(_)
SeqToSet(q) == IF q = << >> THEN {} ELSE {Head(q)} \cup SeqToSet(Tail(q))

\* ============================================================ src/collab_server.py

\* os.path.splitext(name)[1] of the file names a request can carry
SplitExt(name) ==
  CASE name = "pic.jpg" -> ".jpg"
    [] name = "pic" -> ""
    [] OTHER -> ""

\* The multipart bodies POST /upload is called with; the content "" is a file
\* of zero bytes.  saveok tells whether f.save(dest) succeeds (the disk can be
\* full, the directory unwritable).
UploadRequests ==
  {[hasfile |-> h, filename |-> fn, content |-> b, saveok |-> ok] :
     h \in BOOLEAN, fn \in {"pic.jpg", ""}, b \in {"", "imgA", "imgB"}, ok \in BOOLEAN}

\* http: the request served last (whether it had a file field, whether the
\* write succeeded) and its answer
NoAnswer ==
  [n |-> 0, hasfile |-> FALSE, saveok |-> FALSE, content |-> "", filename |-> "",
   status |-> 0, url |-> 0, name |-> 0, error |-> ""]

Answer(n, req, r) ==
  [n |-> n, hasfile |-> req.hasfile, saveok |-> req.saveok, content |-> req.content,
   filename |-> req.filename,
   status |-> r.status, url |-> r.url, name |-> r.name, error |-> r.error]

\* a stored name made from the suggested name alone
SuggestedName(st) == 1

\* uuid.uuid4().hex: a name no stored file has
FreshName(st) == Len(st) + 1

\* upload_file with the record appended before the file is written
upload_file_record_first(req, canv, st) ==
  IF ~req.hasfile
    THEN [status |-> 400, url |-> 0, name |-> 0, error |-> "no file",
          canv |-> canv, store |-> st]
    ELSE LET fname == FreshName(st)
             rec == [canv EXCEPT !.attachments = Append(@, UploadRecord(fname, fname))]
         IN IF ~req.saveok
              THEN [status |-> 500, url |-> 0, name |-> 0, error |-> "save failed",
                    canv |-> rec, store |-> st]
              ELSE [status |-> 201, url |-> fname, name |-> fname, error |-> "",
                    canv |-> rec,
                    store |-> Append(st, [content |-> req.content, ext |-> ".png"])]

\* upload_file: the answer and the state it leaves, [answer, canv, store]
upload_file_result(req, canv, st) ==
  IF ~req.hasfile
    THEN [status |-> 400, url |-> 0, name |-> 0, error |-> "no file",
          canv |-> canv, store |-> st]
    ELSE LET name == IF req.filename = "" THEN "upload" ELSE req.filename
             ext == IF SplitExt(name) = "" THEN ".png" ELSE SplitExt(name)
             fname == FreshName(st)
         IN IF ~req.saveok
              THEN [status |-> 500, url |-> 0, name |-> 0, error |-> "save failed",
                    canv |-> canv, store |-> st]
              ELSE [status |-> 201, url |-> fname, name |-> fname, error |-> "",
                    canv |-> [canv EXCEPT !.attachments =
                                Append(@, UploadRecord(fname, fname))],
                    store |-> Append(st, [content |-> req.content, ext |-> ext])]

\* serve_upload: the status and the bytes of GET /uploads/<name>
serve_upload(name, st) ==
  IF name \in 1..Len(st)
    THEN [status |-> 200, content |-> st[name].content]
    ELSE [status |-> 404, content |-> ""]

\* on_operation filing a text under strokes
ApplyMisfiled(canv, data) ==
  LET payload == GetPayload(data)
  IN CASE data.type = "stroke" -> [canv EXCEPT !.strokes = Append(@, payload)]
       [] data.type = "attach" -> [canv EXCEPT !.attachments = Append(@, payload)]
       [] data.type = "text" -> [canv EXCEPT !.strokes = Append(@, payload)]
       [] OTHER -> canv

\* on_operation keeping only the newest stroke
ApplyReplacing(canv, data) ==
  LET payload == GetPayload(data)
  IN CASE data.type = "stroke" -> [canv EXCEPT !.strokes = <<payload>>]
       [] data.type = "attach" -> [canv EXCEPT !.attachments = Append(@, payload)]
       [] data.type = "text" -> [canv EXCEPT !.texts = Append(@, payload)]
       [] OTHER -> canv

\* on_operation, lines 69-76: the store after data was classified by its tag
ApplyToStore(canv, data) ==
  LET payload == GetPayload(data)
  IN CASE data.type = "stroke" -> [canv EXCEPT !.strokes = Append(@, payload)]
       [] data.type = "attach" -> [canv EXCEPT !.attachments = Append(@, payload)]
       [] data.type = "text" -> [canv EXCEPT !.texts = Append(@, payload)]
       [] OTHER -> canv

\* sio.emit('operation', data) without skip_sid
RecipientsEcho(sid) == Live

\* sio.emit('operation', data, skip_sid=sid): the connections it reaches
Recipients(sid) == Live \ {sid}

\* a server that greets a new connection with an empty snapshot
SnapshotEmpty(canv) == EmptyState

\* sio.emit('init_state', CANV_STATE, room=sid)
Snapshot(canv) == canv

JournalOp(sid, data) ==
  [kind |-> "op", sid |-> sid, type |-> data.type, payload |-> GetPayload(data)]
JournalUpload(rec) ==
  [kind |-> "upload", sid |-> 0, type |-> "attach", payload |-> rec]

\* ============================================================ src/main.py, open_whiteboard

\* ---- attachments of the local list
LocalAttachment(id, img, x) ==
  [id |-> id, img |-> img, orig_img |-> img, url |-> 0, name |-> 0, x |-> x]
\* attachments.append(p): the raw payload, a dictionary without 'img'
\* p.get('x', 50) of a fetched attachment: the payloads of this program carry no x
DEFAULT_X == 50
PayloadX(p) == IF p.x # 0 THEN p.x ELSE DEFAULT_X
\* ax of attach_file for the files of the model: (CANVAS_W - aw)//2
CENTER_X == 40
RawAttachment(p) ==
  [id |-> p.id, img |-> NoImg, orig_img |-> NoImg, url |-> p.url, name |-> p.name,
   x |-> p.x]
HasImg(a) == a.img # NoImg

\* ---- push_history (lines 691-705)
\* the copy push_history makes of one attachment: img, x, y, w, h only
SnapAttachment(a) ==
  [id |-> 0, img |-> a.img, orig_img |-> NoImg, url |-> 0, name |-> 0, x |-> a.x]

SnapOf(img, atts, texts) ==
  [img |-> img,
   attachments |-> [i \in 1..Len(atts) |-> SnapAttachment(atts[i])],
   texts |-> texts]

\* a history that stops growing at the limit and drops what is pushed then
LimitOldest(h) ==
  IF Len(h) > HISTORY_LIMIT THEN SubSeq(h, 1, HISTORY_LIMIT) ELSE h

\* wb_history[-30:]
Limit(h) ==
  IF Len(h) > HISTORY_LIMIT THEN SubSeq(h, Len(h) - HISTORY_LIMIT + 1, Len(h)) ELSE h

\* a push that appends without truncating the forward history
push_history_branching(img, atts, texts, hist, idx) ==
  IF \E i \in 1..Len(atts) : ~HasImg(atts[i])
    THEN [raised |-> TRUE, wb_history |-> hist, history_index |-> idx]
    ELSE LET h == Limit(Append(hist, SnapOf(img, atts, texts)))
         IN [raised |-> FALSE, wb_history |-> h, history_index |-> Len(h) - 1]

\* raised: a['img'] raises KeyError for an attachment without an image, after
\* the forward history was truncated and before anything is appended.
push_history_result(img, atts, texts, hist, idx) ==
  LET trunc == SubSeq(hist, 1, idx + 1)
  IN IF \E i \in 1..Len(atts) : ~HasImg(atts[i])
       THEN [raised |-> TRUE, wb_history |-> trunc, history_index |-> idx]
       ELSE LET h == Limit(Append(trunc, SnapOf(img, atts, texts)))
            IN [raised |-> FALSE, wb_history |-> h, history_index |-> Len(h) - 1]

\* ---- undo (lines 707-716) and redo (lines 718-727)
\* the copy undo and redo make of one attachment of a snapshot: img, x, y, w, h
RestoreAttachment(a) ==
  [id |-> 0, img |-> a.img, orig_img |-> NoImg, url |-> 0, name |-> 0, x |-> a.x]

\* the canvas a snapshot is restored to
Restored(snap) ==
  [img |-> snap.img,
   attachments |-> [i \in 1..Len(snap.attachments) |-> RestoreAttachment(snap.attachments[i])],
   texts |-> snap.texts]

Canvas(img, atts, texts) == [img |-> img, attachments |-> atts, texts |-> texts]

\* an undo that restores the bottom snapshot when the pointer is on it
undo_to_bottom(canv, hist, idx) ==
  IF idx > 0
    THEN [canvas |-> Restored(hist[idx]), history_index |-> idx - 1]
    ELSE [canvas |-> Restored(hist[1]), history_index |-> idx]

\* undo: [canvas, history_index] after it, for the canvas, history and pointer before
undo_result(canv, hist, idx) ==
  IF idx > 0
    THEN [canvas |-> Restored(hist[idx]), history_index |-> idx - 1]
    ELSE [canvas |-> canv, history_index |-> idx]

redo_result(canv, hist, idx) ==
  IF idx < Len(hist) - 1
    THEN [canvas |-> Restored(hist[idx + 2]), history_index |-> idx + 1]
    ELSE [canvas |-> canv, history_index |-> idx]

\* ---- drawing
Primitive(pts, fill, width) == [pts |-> pts, fill |-> fill, width |-> width]

\* a stroke that is received and not drawn
DrawStrokeNot(img, s) == img

\* wb_draw.line(points, fill=s.get('color', '#000000'), width=int(s.get('width', 4)))
\* guarded by "if pts"
DrawStroke(img, s) ==
  IF s.points = << >> THEN img
  ELSE Append(img, Primitive(s.points,
                             IF s.color = "" THEN DEFAULT_COLOR ELSE s.color,
                             IF s.width = 0 THEN DEFAULT_WIDTH ELSE s.width))

RECURSIVE DrawAll(_, _)
DrawAll(img, strokes) ==
  IF strokes = << >> THEN img
  ELSE DrawAll(DrawStroke(img, Head(strokes)), Tail(strokes))

\* ---- attachment resolution
\* requests.get(url) answered 200 with an image: ok is FALSE for a timeout, a
\* connection error or bytes PIL cannot open.
Fetch(url, ok, st) ==
  IF ok /\ serve_upload(url, st).status = 200
    THEN serve_upload(url, st).content
    ELSE NoImg

\* on_operation, lines 1052-1075: the attachment list after an attach operation
ResolveOperation(atts, p, ok, st) ==
  IF p.url # 0 /\ Fetch(p.url, ok, st) # NoImg
    THEN Append(atts, LocalAttachment(p.id, Fetch(p.url, ok, st), PayloadX(p)))
    ELSE Append(atts, RawAttachment(p))

\* on_init_state, lines 1010-1030: one attachment of the snapshot (no 'id' key)
ResolveInit(atts, a, ok, st) ==
  IF a.url # 0 /\ Fetch(a.url, ok, st) # NoImg
    THEN Append(atts, LocalAttachment(0, Fetch(a.url, ok, st), PayloadX(a)))
    ELSE Append(atts, RawAttachment(a))

\* the loop over state['attachments']; fails holds the positions whose fetch fails
RECURSIVE ResolveAll(_, _, _, _, _)
ResolveAll(atts, list, i, fails, st) ==
  IF i > Len(list) THEN atts
  ELSE ResolveAll(ResolveInit(atts, list[i], i \notin fails, st), list, i + 1, fails, st)

\* ---- emit_collab_operation (lines 950-956)
\* collab_sio.emit raises when its connection is not open; the exception is swallowed
CanEmit(c) ==
  /\ collab_sio[c] # 0
  /\ collab_connected[c]
  /\ conns[collab_sio[c]].state = "open"

Emitted(q, c, data) ==
  IF CanEmit(c) THEN [q EXCEPT ![collab_sio[c]] = Append(@, data)] ELSE q

\* callbacks run newest first
MarshalFront(q, cb) == <<cb>> \o q

\* a marshaling that queues the callback twice
MarshalTwice(q, cb) == Append(Append(q, cb), cb)

\* wb.after(0, _apply): callbacks of equal delay run in the order queued
Marshal(q, cb) == Append(q, cb)

\* ============================================================ src/main.py, the main editor

\* An image is the sequence of the edits that made it; None has no edit.
NoImage == << >>
Photo == <<"photo">>

EDITOR_LIMIT == 10
\* the _check_cancel() calls of _enhancement_pipeline on its OpenCV path with
\* denoise > 0 (lines 2557-2581)
CANCEL_CHECKS == 7

\* ImageEnhance.Brightness/Contrast(...).enhance(value), GaussianBlur(radius=value);
\* a blur of radius 0 is the image itself (lines 2108-2120)
Enhance(base, command_type, value) ==
  IF command_type = "blur" /\ value = 0 THEN base
  ELSE Append(base, command_type)

\* _enhancement_pipeline: its result for the copy it was given
Enhanced(base) == Append(base, "enhanced")

\* a history that evicts the newest snapshot when full
self_push_history_newest(im, hist) ==
  IF im = NoImage THEN hist
  ELSE IF Len(hist) + 1 > EDITOR_LIMIT THEN hist ELSE Append(hist, im)

\* self.push_history (lines 1742-1748): the history after it
self_push_history(im, hist) ==
  IF im = NoImage THEN hist
  ELSE IF Len(hist) + 1 > EDITOR_LIMIT THEN Tail(Append(hist, im)) ELSE Append(hist, im)

\* undo_last_action (lines 1750-1766): the image and the history after it;
\* redrawn tells whether update_canvas ran
undo_last_action_result(im, orig, hist) ==
  IF Len(hist) > 1
    THEN LET h == SubSeq(hist, 1, Len(hist) - 1)
         IN [img |-> Last(h), img_history |-> h, redrawn |-> TRUE]
    ELSE IF orig # NoImage
      THEN [img |-> orig, img_history |-> <<orig>>, redrawn |-> TRUE]
      ELSE [img |-> im, img_history |-> hist, redrawn |-> FALSE]

Idle == [pc |-> "idle", arr |-> NoImage, checks |-> 0]

EditorInit ==
  /\ self_img = NoImage
  /\ original_img = NoImage
  /\ img_history = << >>
  /\ current_temp_img = NoImage
  /\ cancel_event = FALSE
  /\ worker = Idle
  /\ afterq = << >>
  /\ edits = << >>

\* ============================================================ initial state
NoSel == << >>
NoDrag ==
  [active |-> FALSE, last |-> 0, has_pts |-> FALSE, stroke_pts |-> << >>, moves |-> 0,
   start |-> 0, selected |-> NoSel, offset |-> 0]

Init ==
  /\ CANV_STATE = EmptyState
  /\ store = << >>
  /\ http = NoAnswer
  /\ conns = << >>
  /\ toServer = << >>
  /\ toClient = << >>
  /\ collab_sio = [c \in Clients |-> 0]
  /\ collab_connected = [c \in Clients |-> FALSE]
  /\ tkq = [c \in Clients |-> << >>]
  /\ wb_img = [c \in Clients |-> << >>]
  /\ attachments = [c \in Clients |-> << >>]
  /\ text_objects = [c \in Clients |-> << >>]
  /\ wb_history = [c \in Clients |-> <<SnapOf(<< >>, << >>, << >>)>>]
  /\ history_index = [c \in Clients |-> 0]
  /\ discarded = [c \in Clients |-> 0]
  /\ mode_var = [c \in Clients |-> "Pen"]
  /\ drawing = [c \in Clients |-> NoDrag]
  /\ nextId = [c \in Clients |-> 0]
  /\ inputs = 0
  /\ journal = << >>
  /\ sent = << >>
  /\ applied = [c \in Clients |-> << >>]
  /\ EditorInit

\* ============================================================ connections

\* connect_collab (lines 958-1097): a new Socket.IO client replaces collab_sio and
\* its thread starts connecting; the client it replaces is not disconnected.
connect_collab(c) ==
  /\ inputs < MaxInputs
  /\ inputs' = inputs + 1
  /\ conns' = Append(conns, [owner |-> c, state |-> "connecting", joined |-> 0])
  /\ toServer' = Append(toServer, << >>)
  /\ toClient' = Append(toClient, << >>)
  /\ sent' = Append(sent, << >>)
  /\ collab_sio' = [collab_sio EXCEPT ![c] = Len(conns) + 1]
  /\ UNCHANGED <<serverVars, collab_connected, tkq, canvasVars, uiVars, nextId,
                 journal, applied>>

\* server connect (lines 54-58) for a whiteboard's connection, and the
\* whiteboard's connect event (lines 977-985)
connect(sid) ==
  /\ conns[sid].state = "connecting"
  /\ conns' = [conns EXCEPT ![sid].state = "open", ![sid].joined = Len(journal)]
  /\ toClient' = [toClient EXCEPT
                    ![sid] = Append(@, InitStateMsg(Snapshot(CANV_STATE), Len(journal)))]
  /\ collab_connected' = [collab_connected EXCEPT ![conns[sid].owner] = TRUE]
  /\ UNCHANGED <<serverVars, toServer, collab_sio, tkq, canvasVars, uiVars, nextId,
                 inputs, histVars>>

\* server connect (lines 54-58) for another participant, who connects and is
\* sent the snapshot
ExtConnect ==
  /\ inputs < MaxInputs
  /\ inputs' = inputs + 1
  /\ conns' = Append(conns, [owner |-> Ext, state |-> "open", joined |-> Len(journal)])
  /\ toServer' = Append(toServer, << >>)
  /\ toClient' = Append(toClient, <<InitStateMsg(Snapshot(CANV_STATE), Len(journal))>>)
  /\ sent' = Append(sent, << >>)
  /\ UNCHANGED <<serverVars, collabVars, canvasVars, uiVars, nextId, journal, applied>>

\* server disconnect (lines 61-63) and the client's disconnect event (lines
\* 987-995): the connection stops being a target, what was in flight is lost.
disconnect(sid) ==
  /\ conns[sid].state = "open"
  /\ inputs < MaxInputs
  /\ inputs' = inputs + 1
  /\ conns' = [conns EXCEPT ![sid].state = "closed"]
  /\ toServer' = [toServer EXCEPT ![sid] = << >>]
  /\ toClient' = IF conns[sid].owner \in Clients
                   THEN [toClient EXCEPT ![sid] = << >>]
                   ELSE toClient
  /\ collab_connected' =
       IF conns[sid].owner \in Clients
         THEN [collab_connected EXCEPT ![conns[sid].owner] = FALSE]
         ELSE collab_connected
  /\ UNCHANGED <<serverVars, collab_sio, tkq, canvasVars, uiVars, nextId, histVars>>

\* ============================================================ server handlers

\* the queues after sio.emit('operation', data, skip_sid=sid)
Broadcast(q, sid, data) ==
  [t \in DOMAIN q |->
     IF t \in Recipients(sid) THEN Append(q[t], OperationMsg(data, sid)) ELSE q[t]]

\* on_operation (lines 66-80); data.get raises for data that is no dictionary,
\* and the handler then only logs.
on_operation(sid) ==
  /\ sid \in Live
  /\ toServer[sid] # << >>
  /\ LET data == Head(toServer[sid])
     IN /\ toServer' = [toServer EXCEPT ![sid] = Tail(@)]
        /\ IF data.isdict
             THEN /\ CANV_STATE' = ApplyToStore(CANV_STATE, data)
                  /\ toClient' = Broadcast(toClient, sid, data)
                  /\ journal' = Append(journal, JournalOp(sid, data))
             ELSE UNCHANGED <<CANV_STATE, toClient, journal>>
  /\ UNCHANGED <<store, http, conns, collabVars, canvasVars, uiVars, nextId, inputs,
                 sent, applied>>

\* POST /upload (lines 26-46) from any HTTP client
upload_file(req) ==
  /\ inputs < MaxInputs
  /\ inputs' = inputs + 1
  /\ LET r == upload_file_result(req, CANV_STATE, store)
     IN /\ CANV_STATE' = r.canv
        /\ store' = r.store
        /\ http' = Answer(http.n + 1, req, r)
        /\ journal' = IF r.status = 201
                        THEN Append(journal, JournalUpload(UploadRecord(r.url, r.name)))
                        ELSE journal
  /\ UNCHANGED <<netVars, collabVars, canvasVars, uiVars, nextId, sent, applied>>

\* What another participant can put on the wire as an 'operation' event: the
\* operations a whiteboard emits (with a fresh id, an attach naming the file
\* uploaded last, if any) and malformed ones.
ExtKinds == {"stroke", "attach", "text", "bogus", "nopayload", "notdict"}

ExtData(kind, id, url) ==
  CASE kind = "stroke" ->
         OpData("stroke", StrokePayload(<<100 + id, 200 + id>>, DEFAULT_COLOR,
                                        DEFAULT_WIDTH, "Pen", id))
    [] kind = "attach" -> OpData("attach", AttachPayload(id, url, url))
    [] kind = "text" -> OpData("text", TextPayload(id, "hi"))
    [] kind = "bogus" -> OpData("bogus", TextPayload(id, "hi"))
    [] kind = "nopayload" -> NoPayloadData("stroke")
    [] OTHER -> NotADict

\* uuid.uuid4(): a value no other call returns.  A whiteboard's n-th value is n,
\* the n-th value of the participant on sid is 100 * sid + n.
Uuid(c) == nextId[c] + 1
PeerUuid(sid) == 100 * sid + Len(sent[sid]) + 1

ExtSend(sid, kind) ==
  /\ sid \in Live
  /\ conns[sid].owner = Ext
  /\ inputs < MaxInputs
  /\ inputs' = inputs + 1
  /\ LET data == ExtData(kind, PeerUuid(sid), Len(store))
     IN /\ toServer' = [toServer EXCEPT ![sid] = Append(@, data)]
        /\ sent' = [sent EXCEPT ![sid] = Append(@, data)]
  /\ UNCHANGED <<serverVars, conns, toClient, collabVars, canvasVars, uiVars, nextId,
                 journal, applied>>

\* ============================================================ client: network context

\* the Socket.IO client thread of a whiteboard receives an event and queues its
\* _apply (on_init_state line 1037, on_operation line 1082)
Recv(sid) ==
  /\ conns[sid].owner \in Clients
  /\ toClient[sid] # << >>
  /\ toClient' = [toClient EXCEPT ![sid] = Tail(@)]
  /\ tkq' = [tkq EXCEPT ![conns[sid].owner] =
               Marshal(@, [sid |-> sid, msg |-> Head(toClient[sid])])]
  /\ UNCHANGED <<serverVars, conns, toServer, collab_sio, collab_connected,
                 canvasVars, uiVars, nextId, inputs, histVars>>

\* ============================================================ client: editing context

\* push_history() on c's canvas as it will be after the step
PushHistory(c, img, atts, texts) ==
  LET r == push_history_result(img, atts, texts, wb_history[c], history_index[c])
  IN /\ wb_history' = [wb_history EXCEPT ![c] = r.wb_history]
     /\ history_index' = [history_index EXCEPT ![c] = r.history_index]
     /\ discarded' = [discarded EXCEPT ![c] = Len(wb_history[c]) - history_index[c] - 1]

\* on_init_state._apply (lines 1000-1036)
apply_init_state(c) ==
  /\ tkq[c] # << >>
  /\ Head(tkq[c]).msg.event = "init_state"
  /\ tkq' = [tkq EXCEPT ![c] = Tail(@)]
  /\ LET state == Head(tkq[c]).msg.state
     IN \E fails \in SUBSET {i \in 1..Len(state.attachments) :
                               state.attachments[i].url # 0} :
          LET img == DrawAll(wb_img[c], state.strokes)
              atts == ResolveAll(attachments[c], state.attachments, 1, fails, store)
              texts == text_objects[c] \o state.texts
          IN /\ wb_img' = [wb_img EXCEPT ![c] = img]
             /\ attachments' = [attachments EXCEPT ![c] = atts]
             /\ text_objects' = [text_objects EXCEPT ![c] = texts]
             /\ PushHistory(c, img, atts, texts)
  /\ UNCHANGED <<serverVars, netVars, collab_sio, collab_connected, uiVars, nextId,
                 inputs, histVars>>

\* on_operation._apply (lines 1041-1081)
apply_operation(c) ==
  /\ tkq[c] # << >>
  /\ Head(tkq[c]).msg.event = "operation"
  /\ tkq' = [tkq EXCEPT ![c] = Tail(@)]
  /\ LET data == Head(tkq[c]).msg.data
         p == GetPayload(data)
     IN \E ok \in BOOLEAN :
          LET img == IF data.type = "stroke" THEN DrawStroke(wb_img[c], p) ELSE wb_img[c]
              atts == IF data.type = "attach"
                        THEN ResolveOperation(attachments[c], p, ok, store)
                        ELSE attachments[c]
              texts == IF data.type = "text" THEN Append(text_objects[c], p)
                       ELSE text_objects[c]
          IN /\ (ok \/ (data.type = "attach" /\ p.url # 0))
             /\ wb_img' = [wb_img EXCEPT ![c] = img]
             /\ attachments' = [attachments EXCEPT ![c] = atts]
             /\ text_objects' = [text_objects EXCEPT ![c] = texts]
             /\ PushHistory(c, img, atts, texts)
  /\ applied' = [applied EXCEPT ![c] = Append(@, [sid |-> Head(tkq[c]).sid,
                                                  from |-> Head(tkq[c]).msg.k,
                                                  data |-> Head(tkq[c]).msg.data])]
  /\ UNCHANGED <<serverVars, netVars, collab_sio, collab_connected, uiVars, nextId,
                 inputs, journal, sent>>

\* the pointer positions of c's k-th event of a drag
Pos(c, k) == 10 + k

\* on_down (lines 1273-1377) after the user chose mode m in the selector, for
\* the modes Pen, Eraser, Text and Line; txt is the answer of the text prompt ("" when
\* it is cancelled).  The specifications count the event.
on_down(c, m, txt) ==
  /\ ~drawing[c].active
  /\ m # "Move"
  /\ mode_var' = [mode_var EXCEPT ![c] = m]
  /\ IF m = "Text"
       THEN /\ drawing' = [drawing EXCEPT ![c].active = FALSE, ![c].last = Pos(c, 0),
                                          ![c].start = Pos(c, 0), ![c].moves = 0]
            /\ IF txt # ""
                 THEN LET texts == Append(text_objects[c],
                                          [TextPayload(0, txt) EXCEPT !.x = Pos(c, 0)])
                      IN /\ text_objects' = [text_objects EXCEPT ![c] = texts]
                         /\ PushHistory(c, wb_img[c], attachments[c], texts)
                 ELSE UNCHANGED <<text_objects, wb_history, history_index, discarded>>
       ELSE /\ txt = ""
            /\ drawing' = [drawing EXCEPT ![c].active = TRUE, ![c].last = Pos(c, 0),
                                          ![c].start = Pos(c, 0), ![c].moves = 0]
            /\ UNCHANGED <<text_objects, wb_history, history_index, discarded>>
  /\ UNCHANGED <<serverVars, netVars, collabVars, wb_img, attachments, nextId,
                 histVars>>

\* the objects a press in the mode Move can select (lines 1302-1330): the hit
\* test reads a['x'] of the attachments from the topmost down and then t['x']
\* of the texts, and raises at the first one that has none
Selectable(atts, texts) ==
  {<<"attach", i>> : i \in {j \in 1..Len(atts) : \A k \in j..Len(atts) : HasImg(atts[k])}}
    \cup {<<"text", i>> : i \in {j \in 1..Len(texts) :
                                  /\ \A k \in 1..Len(atts) : HasImg(atts[k])
                                  /\ \A k \in j..Len(texts) : texts[k].x # 0}}

\* on_down (lines 1273-1276, 1302-1373) in the mode Move: the press lands just
\* inside the object sel, or on no object (sel = NoSel); the press never lands
\* on a resize handle
on_down_Move(c, sel) ==
  /\ ~drawing[c].active
  /\ sel \in Selectable(attachments[c], text_objects[c]) \cup {NoSel}
  /\ mode_var' = [mode_var EXCEPT ![c] = "Move"]
  /\ LET obj == IF sel = NoSel THEN [x |-> Pos(c, 0) - 1]
                ELSE IF sel[1] = "attach" THEN attachments[c][sel[2]]
                ELSE text_objects[c][sel[2]]
         x == obj.x + 1
     IN drawing' = [drawing EXCEPT ![c].active = TRUE, ![c].last = x, ![c].start = x,
                                   ![c].moves = 0,
                                   ![c].selected = IF sel = NoSel THEN @ ELSE sel,
                                   ![c].offset = IF sel = NoSel THEN @ ELSE x - obj.x]
  /\ UNCHANGED <<serverVars, netVars, collabVars, canvasVars, nextId, histVars>>

\* on_move (lines 1379-1485).  Pen, Eraser: the segment is drawn on wb_img at
\* once, in the drawing colour or in the transparent fill of the eraser.
\* Move: the selected object is translated in place.  Line: the shape is
\* drawn on a temporary copy of the canvas, which is displayed and dropped.
on_move(c) ==
  /\ drawing[c].active
  /\ inputs < MaxInputs
  /\ inputs' = inputs + 1
  /\ LET d == drawing[c]
         x == d.start + d.moves + 1
         color == IF mode_var[c] = "Eraser" THEN ERASER_FILL ELSE DEFAULT_COLOR
     IN CASE mode_var[c] \in {"Pen", "Eraser"} ->
               /\ wb_img' = [wb_img EXCEPT ![c] =
                        Append(@, Primitive(<<d.last, x>>, color, DEFAULT_WIDTH))]
               /\ drawing' = [drawing EXCEPT ![c] =
                         [d EXCEPT !.last = x, !.moves = d.moves + 1, !.has_pts = TRUE,
                                   !.stroke_pts = IF d.has_pts THEN Append(d.stroke_pts, x)
                                                  ELSE <<d.last, x>>]]
               /\ UNCHANGED <<attachments, text_objects>>
          [] mode_var[c] = "Move" /\ d.selected # NoSel ->
               /\ IF d.selected[1] = "attach"
                    THEN /\ attachments' = [attachments EXCEPT
                                              ![c][d.selected[2]].x = x - d.offset]
                         /\ UNCHANGED text_objects
                    ELSE /\ text_objects' = [text_objects EXCEPT
                                               ![c][d.selected[2]].x = x - d.offset]
                         /\ UNCHANGED attachments
               /\ drawing' = [drawing EXCEPT ![c].last = x, ![c].moves = d.moves + 1]
               /\ UNCHANGED wb_img
          [] OTHER ->
               /\ drawing' = [drawing EXCEPT ![c].moves = d.moves + 1]
               /\ UNCHANGED <<wb_img, attachments, text_objects>>
  /\ UNCHANGED <<serverVars, netVars, collabVars, wb_history, history_index, discarded,
                 mode_var, nextId, histVars>>

\* on_up (lines 1487-1531); the release is where the pointer last was.
\* push_history() is outside any try: when it raises, the handler ends there.
\* Pen, Eraser: the stroke is pushed and emitted.  Line: the shape is drawn on wb_img
\* and pushed.  Move: a snapshot is pushed when an object is selected.
on_up(c) ==
  /\ drawing[c].active
  /\ LET d == drawing[c]
         x == d.start + d.moves
         img == IF mode_var[c] = "Line"
                  THEN Append(wb_img[c], Primitive(<<d.start, x>>, DEFAULT_COLOR,
                                                   DEFAULT_WIDTH))
                  ELSE wb_img[c]
         pushes == mode_var[c] # "Move" \/ d.selected # NoSel
         r == push_history_result(img, attachments[c], text_objects[c],
                                  wb_history[c], history_index[c])
         data == OpData("stroke", StrokePayload(d.stroke_pts, DEFAULT_COLOR,
                                                DEFAULT_WIDTH, mode_var[c], Uuid(c)))
     IN /\ wb_img' = [wb_img EXCEPT ![c] = img]
        /\ IF pushes
             THEN PushHistory(c, img, attachments[c], text_objects[c])
             ELSE UNCHANGED <<wb_history, history_index, discarded>>
        /\ IF pushes /\ r.raised
             THEN /\ drawing' = [drawing EXCEPT ![c].active = FALSE]
                  /\ UNCHANGED <<toServer, sent, nextId>>
             ELSE /\ drawing' = [drawing EXCEPT ![c] = [NoDrag EXCEPT !.moves = d.moves,
                                                                      !.start = d.start]]
                  /\ IF mode_var[c] \in {"Pen", "Eraser"} /\ d.has_pts
                        /\ d.stroke_pts # << >>
                       THEN /\ nextId' = [nextId EXCEPT ![c] = @ + 1]
                            /\ toServer' = Emitted(toServer, c, data)
                            /\ sent' = Emitted(sent, c, data)
                       ELSE UNCHANGED <<toServer, sent, nextId>>
  /\ UNCHANGED <<serverVars, conns, toClient, collabVars, attachments,
                 text_objects, mode_var, inputs, journal, applied>>

\* the canvas and the pointer become what undo or redo computed
SetCanvas(c, r) ==
  /\ wb_img' = [wb_img EXCEPT ![c] = r.canvas.img]
  /\ attachments' = [attachments EXCEPT ![c] = r.canvas.attachments]
  /\ text_objects' = [text_objects EXCEPT ![c] = r.canvas.texts]
  /\ history_index' = [history_index EXCEPT ![c] = r.history_index]

\* an Undo that also tells the dispatcher
undo_synced(c) ==
  /\ SetCanvas(c, undo_result(Canvas(wb_img[c], attachments[c], text_objects[c]),
                              wb_history[c], history_index[c]))
  /\ toServer' = Emitted(toServer, c, OpData("undo", EmptyDict))
  /\ UNCHANGED <<serverVars, conns, toClient, collabVars, wb_history, discarded, uiVars,
                 nextId, histVars>>

\* the Undo button (lines 707-716).  The specifications count the event.
undo(c) ==
  /\ SetCanvas(c, undo_result(Canvas(wb_img[c], attachments[c], text_objects[c]),
                              wb_history[c], history_index[c]))
  /\ UNCHANGED <<serverVars, netVars, collabVars, wb_history, discarded, uiVars, nextId,
                 histVars>>

\* the Redo button (lines 718-727)
redo(c) ==
  /\ SetCanvas(c, redo_result(Canvas(wb_img[c], attachments[c], text_objects[c]),
                              wb_history[c], history_index[c]))
  /\ UNCHANGED <<serverVars, netVars, collabVars, wb_history, discarded, uiVars, nextId,
                 histVars>>

\* the Clear button (lines 1129-1138)
clear_board(c) ==
  /\ wb_img' = [wb_img EXCEPT ![c] = << >>]
  /\ attachments' = [attachments EXCEPT ![c] = << >>]
  /\ text_objects' = [text_objects EXCEPT ![c] = << >>]
  /\ wb_history' = [wb_history EXCEPT ![c] = <<SnapOf(<< >>, << >>, << >>)>>]
  /\ history_index' = [history_index EXCEPT ![c] = 0]
  /\ UNCHANGED <<serverVars, netVars, collabVars, discarded, uiVars, nextId, histVars>>

\* attach_file (lines 734-769).  outcome is what requests.post meets: "neterr" (an
\* exception), "savefail" (the server's write fails) or "ok".
attach_file(c, file, outcome) ==
  /\ ~drawing[c].active
  /\ inputs < MaxInputs
  /\ inputs' = inputs + 1
  /\ nextId' = [nextId EXCEPT ![c] = @ + 1]
  /\ LET attach == LocalAttachment(Uuid(c), file, CENTER_X)
         atts == Append(attachments[c], attach)
         r == push_history_result(wb_img[c], atts, text_objects[c],
                                  wb_history[c], history_index[c])
         req == [hasfile |-> TRUE, filename |-> "pic.jpg", content |-> file,
                 saveok |-> outcome = "ok"]
         u == upload_file_result(req, CANV_STATE, store)
         data == OpData("attach", AttachPayload(attach.id, u.url, u.name))
     IN /\ attachments' = [attachments EXCEPT ![c] = atts]
        /\ PushHistory(c, wb_img[c], atts, text_objects[c])
        /\ IF ~r.raised /\ collab_sio[c] # 0 /\ collab_connected[c] /\ outcome # "neterr"
             THEN /\ CANV_STATE' = u.canv
                  /\ store' = u.store
                  /\ http' = Answer(http.n + 1, req, u)
                  /\ journal' = IF u.status = 201
                                  THEN Append(journal,
                                              JournalUpload(UploadRecord(u.url, u.name)))
                                  ELSE journal
                  /\ toServer' = IF u.status = 201 THEN Emitted(toServer, c, data)
                                 ELSE toServer
                  /\ sent' = IF u.status = 201 THEN Emitted(sent, c, data) ELSE sent
             ELSE /\ outcome = "neterr"
                  /\ UNCHANGED <<serverVars, toServer, sent, journal>>
  /\ UNCHANGED <<conns, toClient, collabVars, wb_img, text_objects, uiVars, applied>>

\* ============================================================ main editor

\* upload_image (lines 1770-1790): the user opens a file
upload_image ==
  /\ self_img' = Photo
  /\ original_img' = Photo
  /\ img_history' = <<Photo>>
  /\ current_temp_img' = NoImage
  /\ edits' = << >>
  /\ UNCHANGED <<cancel_event, worker, afterq>>

\* a slider is dragged: update_label (lines 1616-1620) calls
\* apply_enhancement_preview (lines 2100-2123)
apply_enhancement_preview(command_type, value) ==
  /\ self_img # NoImage
  /\ current_temp_img' = Enhance(self_img, command_type, value)
  /\ UNCHANGED <<self_img, original_img, img_history, cancel_event, worker, afterq,
                 edits>>

\* the Apply button of a slider: commit_enhancement (lines 2162-2171)
commit_enhancement ==
  /\ IF current_temp_img # NoImage
       THEN /\ img_history' = self_push_history(self_img, img_history)
            /\ self_img' = current_temp_img
            /\ current_temp_img' = NoImage
            /\ edits' = Append(edits, self_img)
       ELSE UNCHANGED <<self_img, img_history, current_temp_img, edits>>
  /\ UNCHANGED <<original_img, cancel_event, worker, afterq>>

\* the Grayscale button: convert_grayscale (lines 2182-2187); update_canvas
\* drops the preview
convert_grayscale ==
  /\ self_img # NoImage
  /\ img_history' = self_push_history(self_img, img_history)
  /\ self_img' = Append(self_img, "gray")
  /\ current_temp_img' = NoImage
  /\ edits' = Append(edits, self_img)
  /\ UNCHANGED <<original_img, cancel_event, worker, afterq>>

\* the Undo button of the main editor: undo_last_action (lines 1750-1766)
undo_last_action ==
  /\ LET r == undo_last_action_result(self_img, original_img, img_history)
     IN /\ self_img' = r.img
        /\ img_history' = r.img_history
        /\ current_temp_img' = IF r.redrawn THEN NoImage ELSE current_temp_img
  /\ edits' = IF edits # << >> THEN SubSeq(edits, 1, Len(edits) - 1) ELSE edits
  /\ UNCHANGED <<original_img, cancel_event, worker, afterq>>

\* "Apply (with progress)" of the advanced enhancer: _apply_with_progress (lines
\* 2791-2838) makes the Event and starts the thread
apply_with_progress ==
  /\ self_img # NoImage
  /\ worker.pc = "idle"
  /\ cancel_event' = FALSE
  /\ worker' = [pc |-> "copy", arr |-> NoImage, checks |-> 0]
  /\ UNCHANGED <<self_img, original_img, img_history, current_temp_img, afterq, edits>>

\* the Cancel button of the progress dialog: _cancel (lines 2804-2806); the
\* dialog is there until a callback destroys it
cancel ==
  /\ worker.pc # "idle"
  /\ cancel_event' = TRUE
  /\ UNCHANGED <<self_img, original_img, img_history, current_temp_img, worker, afterq,
                 edits>>

\* _bg (lines 2810-2835) evaluates self.img.copy()
bg_copy ==
  /\ worker.pc = "copy"
  /\ worker' = [worker EXCEPT !.pc = "check", !.arr = self_img]
  /\ UNCHANGED <<self_img, original_img, img_history, current_temp_img, cancel_event,
                 afterq, edits>>

\* _check_cancel (lines 2550-2552) and the stage after it; a cancelled pipeline
\* raises RuntimeError and _bg queues the "Cancelled." callback
bg_check ==
  /\ worker.pc = "check"
  /\ IF cancel_event
       THEN /\ worker' = [worker EXCEPT !.pc = "posted"]
            /\ afterq' = Append(afterq, [cb |-> "cancelled", out |-> NoImage])
       ELSE /\ worker' = [worker EXCEPT !.checks = @ + 1,
                                        !.pc = IF worker.checks + 1 = CANCEL_CHECKS
                                                 THEN "return" ELSE "check"]
            /\ UNCHANGED afterq
  /\ UNCHANGED <<self_img, original_img, img_history, current_temp_img, cancel_event,
                 edits>>

\* the pipeline returns and _bg queues _finish (line 2830)
bg_return ==
  /\ worker.pc = "return"
  /\ worker' = [worker EXCEPT !.pc = "posted"]
  /\ afterq' = Append(afterq, [cb |-> "_finish", out |-> Enhanced(worker.arr)])
  /\ UNCHANGED <<self_img, original_img, img_history, current_temp_img, cancel_event,
                 edits>>

\* the main loop runs the callback queued first: _finish (lines 2814-2828) or
\* the "Cancelled." lambda (line 2833)
run_after ==
  /\ afterq # << >>
  /\ afterq' = Tail(afterq)
  /\ worker' = Idle
  /\ IF Head(afterq).cb = "_finish"
       THEN /\ img_history' = self_push_history(self_img, img_history)
            /\ self_img' = Head(afterq).out
            /\ current_temp_img' = NoImage
            /\ edits' = Append(edits, self_img)
       ELSE UNCHANGED <<self_img, img_history, current_temp_img, edits>>
  /\ UNCHANGED <<original_img, cancel_event>>

\* ============================================================ specification
\* one more input from outside, of at most max
Event(max) ==
  /\ inputs < max
  /\ inputs' = inputs + 1

Next ==
  \/ \E c \in Clients : connect_collab(c) /\ UNCHANGED editorVars
  \/ ExtConnect /\ UNCHANGED editorVars
  \/ \E s \in Sids : connect(s) /\ UNCHANGED editorVars
  \/ \E s \in Sids : disconnect(s) /\ UNCHANGED editorVars
  \/ \E s \in Sids : on_operation(s) /\ UNCHANGED editorVars
  \/ \E req \in UploadRequests : upload_file(req) /\ UNCHANGED editorVars
  \/ \E s \in Sids, kind \in ExtKinds : ExtSend(s, kind) /\ UNCHANGED editorVars
  \/ \E s \in Sids : Recv(s) /\ UNCHANGED editorVars
  \/ \E c \in Clients : apply_init_state(c) /\ UNCHANGED editorVars
  \/ \E c \in Clients : apply_operation(c) /\ UNCHANGED editorVars
  \/ \E c \in Clients, m \in Modes, txt \in {"", "hi"} :
       Event(MaxInputs) /\ on_down(c, m, txt)
       /\ UNCHANGED editorVars
  \/ \E c \in Clients :
       \E sel \in Selectable(attachments[c], text_objects[c]) \cup {NoSel} :
         Event(MaxInputs) /\ on_down_Move(c, sel) /\ UNCHANGED editorVars
  \/ \E c \in Clients : on_move(c) /\ UNCHANGED editorVars
  \/ \E c \in Clients : on_up(c) /\ UNCHANGED editorVars
  \/ \E c \in Clients, file \in Files, outcome \in {"neterr", "savefail", "ok"} :
       attach_file(c, file, outcome)
       /\ UNCHANGED editorVars
  \/ \E c \in Clients : Event(MaxInputs) /\ undo(c) /\ UNCHANGED editorVars
  \/ \E c \in Clients : Event(MaxInputs) /\ redo(c) /\ UNCHANGED editorVars
  \/ \E c \in Clients : Event(MaxInputs) /\ clear_board(c) /\ UNCHANGED editorVars

Spec == Init /\ [][Next]_vars

\* A session under way: the whiteboard is connected and has applied the (empty)
\* snapshot it was sent, one other participant is connected.  Spec reaches this
\* state by connect_collab, connect, Recv, apply_init_state and ExtConnect.
InitSession ==
  /\ CANV_STATE = EmptyState
  /\ store = << >>
  /\ http = NoAnswer
  /\ conns = <<[owner |-> "A", state |-> "open", joined |-> 0],
               [owner |-> Ext, state |-> "open", joined |-> 0]>>
  /\ toServer = << << >>, << >> >>
  /\ toClient = << << >>, <<InitStateMsg(EmptyState, 0)>> >>
  /\ collab_sio = [c \in Clients |-> 1]
  /\ collab_connected = [c \in Clients |-> TRUE]
  /\ tkq = [c \in Clients |-> << >>]
  /\ wb_img = [c \in Clients |-> << >>]
  /\ attachments = [c \in Clients |-> << >>]
  /\ text_objects = [c \in Clients |-> << >>]
  /\ wb_history = [c \in Clients |->
                     <<SnapOf(<< >>, << >>, << >>), SnapOf(<< >>, << >>, << >>)>>]
  /\ history_index = [c \in Clients |-> 1]
  /\ discarded = [c \in Clients |-> 0]
  /\ mode_var = [c \in Clients |-> "Pen"]
  /\ drawing = [c \in Clients |-> NoDrag]
  /\ nextId = [c \in Clients |-> 0]
  /\ inputs = 0
  /\ journal = << >>
  /\ sent = << << >>, << >> >>
  /\ applied = [c \in Clients |-> << >>]
  /\ EditorInit

\* The session's traffic: what the participants send and draw, its handling by
\* the dispatcher and by the whiteboard, and connections closing or joining.
NextSession ==
  \/ ExtConnect /\ UNCHANGED editorVars
  \/ \E s \in Sids : disconnect(s) /\ UNCHANGED editorVars
  \/ \E s \in Sids : on_operation(s) /\ UNCHANGED editorVars
  \/ \E s \in Sids, kind \in {"stroke", "attach", "text"} : ExtSend(s, kind)
       /\ UNCHANGED editorVars
  \/ \E s \in Sids : Recv(s) /\ UNCHANGED editorVars
  \/ \E c \in Clients : apply_operation(c) /\ UNCHANGED editorVars
  \/ \E c \in Clients, m \in {"Pen", "Text"}, txt \in {"", "hi"} :
       Event(MaxInputs) /\ on_down(c, m, txt)
       /\ UNCHANGED editorVars
  \/ \E c \in Clients : on_move(c) /\ UNCHANGED editorVars
  \/ \E c \in Clients : on_up(c) /\ UNCHANGED editorVars

SpecSession == InitSession /\ [][NextSession]_vars

\* The dispatcher alone, with participants that send whatever a client can send.
NextServer ==
  \/ ExtConnect /\ UNCHANGED editorVars
  \/ \E s \in Sids : disconnect(s) /\ UNCHANGED editorVars
  \/ \E s \in Sids : on_operation(s) /\ UNCHANGED editorVars
  \/ \E req \in UploadRequests : upload_file(req) /\ UNCHANGED editorVars
  \/ \E s \in Sids, kind \in ExtKinds : ExtSend(s, kind) /\ UNCHANGED editorVars

SpecServer == Init /\ [][NextServer]_vars

\* A whiteboard joins a session: participants connect and send, the whiteboard
\* connects, receives the snapshot and the operations that follow, and applies them.
NextJoin ==
  \/ \E c \in Clients : connect_collab(c) /\ UNCHANGED editorVars
  \/ ExtConnect /\ UNCHANGED editorVars
  \/ \E s \in Sids : connect(s) /\ UNCHANGED editorVars
  \/ \E s \in Sids : on_operation(s) /\ UNCHANGED editorVars
  \/ \E s \in Sids, kind \in {"stroke", "attach", "text"} : ExtSend(s, kind)
       /\ UNCHANGED editorVars
  \/ \E s \in Sids : Recv(s) /\ UNCHANGED editorVars
  \/ \E c \in Clients : apply_init_state(c) /\ UNCHANGED editorVars
  \/ \E c \in Clients : apply_operation(c) /\ UNCHANGED editorVars

SpecJoin == Init /\ [][NextJoin]_vars

\* A session in which the user of the whiteboard draws, places texts and uses
\* Undo, Redo and Clear while another participant sends strokes.
NextShared ==
  \/ \E s \in Sids : on_operation(s) /\ UNCHANGED editorVars
  \/ \E s \in Sids : ExtSend(s, "stroke") /\ UNCHANGED editorVars
  \/ \E s \in Sids : Recv(s) /\ UNCHANGED editorVars
  \/ \E c \in Clients : apply_operation(c) /\ UNCHANGED editorVars
  \/ \E c \in Clients, m \in {"Pen", "Text"}, txt \in {"", "hi"} :
       Event(MaxInputs) /\ on_down(c, m, txt)
       /\ UNCHANGED editorVars
  \/ \E c \in Clients : on_move(c) /\ UNCHANGED editorVars
  \/ \E c \in Clients : on_up(c) /\ UNCHANGED editorVars
  \/ \E c \in Clients : Event(MaxInputs) /\ undo(c) /\ UNCHANGED editorVars
  \/ \E c \in Clients : Event(MaxInputs) /\ redo(c) /\ UNCHANGED editorVars
  \/ \E c \in Clients : Event(MaxInputs) /\ clear_board(c) /\ UNCHANGED editorVars

SpecShared == InitSession /\ [][NextShared]_vars

\* A session in which the user of the whiteboard draws with the pen and with
\* the eraser while another participant sends strokes.
NextStroke ==
  \/ \E s \in Sids : on_operation(s) /\ UNCHANGED editorVars
  \/ \E s \in Sids : ExtSend(s, "stroke") /\ UNCHANGED editorVars
  \/ \E s \in Sids : Recv(s) /\ UNCHANGED editorVars
  \/ \E c \in Clients : apply_operation(c) /\ UNCHANGED editorVars
  \/ \E c \in Clients, m \in {"Pen", "Eraser"} :
       Event(MaxInputs) /\ on_down(c, m, "") /\ UNCHANGED editorVars
  \/ \E c \in Clients : on_move(c) /\ UNCHANGED editorVars
  \/ \E c \in Clients : on_up(c) /\ UNCHANGED editorVars

SpecStroke == InitSession /\ [][NextStroke]_vars

\* The whiteboard on its own: the user places texts, undoes, redoes and clears.
\* Only the placements are counted, the other three cannot go on for ever.
NextHistory ==
  \/ \E c \in Clients : Event(MaxEdits) /\ on_down(c, "Text", "hi")
       /\ UNCHANGED editorVars
  \/ \E c \in Clients : undo(c) /\ UNCHANGED inputs /\ UNCHANGED editorVars
  \/ \E c \in Clients : redo(c) /\ UNCHANGED inputs /\ UNCHANGED editorVars
  \/ \E c \in Clients : clear_board(c) /\ UNCHANGED inputs /\ UNCHANGED editorVars

SpecHistory == Init /\ [][NextHistory]_vars

\* The whiteboard of a user who is not connected: drawing, placing texts and
\* files, undoing, redoing and clearing.
NextBoard ==
  \/ \E c \in Clients, m \in Modes, txt \in {"", "hi"} :
       Event(MaxInputs) /\ on_down(c, m, txt)
       /\ UNCHANGED editorVars
  \/ \E c \in Clients :
       \E sel \in Selectable(attachments[c], text_objects[c]) \cup {NoSel} :
         Event(MaxInputs) /\ on_down_Move(c, sel) /\ UNCHANGED editorVars
  \/ \E c \in Clients : on_move(c) /\ UNCHANGED editorVars
  \/ \E c \in Clients : on_up(c) /\ UNCHANGED editorVars
  \/ \E c \in Clients, file \in Files : attach_file(c, file, "neterr")
       /\ UNCHANGED editorVars
  \/ \E c \in Clients : Event(MaxInputs) /\ undo(c) /\ UNCHANGED editorVars
  \/ \E c \in Clients : Event(MaxInputs) /\ redo(c) /\ UNCHANGED editorVars
  \/ \E c \in Clients : Event(MaxInputs) /\ clear_board(c) /\ UNCHANGED editorVars

SpecBoard == Init /\ [][NextBoard]_vars

\* The main editor on its own: sliders, their Apply buttons and the advanced
\* enhancer with its thread.
NextEditor ==
  \/ Event(MaxInputs) /\ upload_image /\ UNCHANGED wbVars
  \/ \E command_type \in {"brightness", "blur"}, value \in {0, 2} :
       Event(MaxInputs) /\ apply_enhancement_preview(command_type, value)
       /\ UNCHANGED wbVars
  \/ Event(MaxInputs) /\ commit_enhancement /\ UNCHANGED wbVars
  \/ Event(MaxInputs) /\ convert_grayscale /\ UNCHANGED wbVars
  \/ Event(MaxInputs) /\ undo_last_action /\ UNCHANGED wbVars
  \/ Event(MaxInputs) /\ apply_with_progress /\ UNCHANGED wbVars
  \/ Event(MaxInputs) /\ cancel /\ UNCHANGED wbVars
  \/ bg_copy /\ UNCHANGED inputs /\ UNCHANGED wbVars
  \/ bg_check /\ UNCHANGED inputs /\ UNCHANGED wbVars
  \/ bg_return /\ UNCHANGED inputs /\ UNCHANGED wbVars
  \/ run_after /\ UNCHANGED inputs /\ UNCHANGED wbVars

SpecEditor == Init /\ [][NextEditor]_vars

\* The main editor's history: the user loads a photo, converts it again and
\* again and undoes.  Only the conversions are counted.
NextPhoto ==
  \/ upload_image /\ UNCHANGED inputs /\ UNCHANGED wbVars
  \/ Event(MaxConversions) /\ convert_grayscale /\ UNCHANGED wbVars
  \/ undo_last_action /\ UNCHANGED inputs /\ UNCHANGED wbVars

SpecPhoto == Init /\ [][NextPhoto]_vars

\* ============================================================ properties

\* the messages emitted to sid and not yet applied by a whiteboard, oldest first
RECURSIVE MsgsOf(_)
MsgsOf(q) == IF q = << >> THEN << >> ELSE <<Head(q).msg>> \o MsgsOf(Tail(q))

InitStateMsgs ==
  {m \in UNION ({SeqToSet(toClient[s]) : s \in Sids}
                \cup {SeqToSet(MsgsOf(tkq[c])) : c \in Clients}) :
     m.event = "init_state"}

\* the server handles the operation at the head of toServer[s] in this step
Handled(s) ==
  /\ conns' = conns
  /\ toServer[s] # << >>
  /\ toServer'[s] = Tail(toServer[s])

\* the payloads of the journal entries of one tag and of the kinds given, in order
RECURSIVE Payloads(_, _, _)
Payloads(j, type, kinds) ==
  IF j = << >> THEN << >>
  ELSE (IF Head(j).type = type /\ Head(j).kind \in kinds
          THEN <<Head(j).payload>> ELSE << >>)
       \o Payloads(Tail(j), type, kinds)

\* ---- C1
\* C1: skip-origin broadcast.  Whenever the server handles an operation (a
\* dictionary) received from connection s, the operation is appended to the
\* queue of every other live connection, and nothing is delivered to s or to a
\* connection that is not live.
C1_SkipOrigin ==
  [][\A s \in Sids :
       (Handled(s) /\ Head(toServer[s]).isdict) =>
         /\ \A t \in Live \ {s} :
              toClient'[t] = Append(toClient[t], OperationMsg(Head(toServer[s]), s))
         /\ \A t \in (Sids \ Live) \cup {s} : toClient'[t] = toClient[t]]_vars

\* an operation of some connection has reached two other connections and not
\* its sender
C1_Witness ==
  \E s \in Sids :
    /\ \E i \in 1..Len(journal) : journal[i].kind = "op" /\ journal[i].sid = s
    /\ Cardinality({t \in Sids \ {s} :
                      \E i \in 1..Len(toClient[t]) :
                        toClient[t][i].event = "operation" /\ toClient[t][i].k = s}) >= 2
    /\ \A i \in 1..Len(toClient[s]) : toClient[s][i].event # "operation"

\* ---- C2
\* C2 as claimed: every init_state snapshot holds, list by list and in the order
\* the server accepted them, exactly the payloads of the operations accepted
\* before the connect, and nothing else.
C2_SnapshotIsOperations ==
  \A m \in InitStateMsgs :
    LET j == SubSeq(journal, 1, m.k)
    IN m.state = [strokes |-> Payloads(j, "stroke", {"op"}),
                  attachments |-> Payloads(j, "attach", {"op"}),
                  texts |-> Payloads(j, "text", {"op"})]

\* C2 amended: the strokes and texts of every init_state snapshot are exactly the
\* payloads of the stroke and text operations accepted before the connect, in
\* order; its attachments are, in the order the server handled them, the
\* payloads of the accepted attach operations and one {url, name} record for
\* every successful POST /upload.
C2_SnapshotIsJournal ==
  \A m \in InitStateMsgs :
    LET j == SubSeq(journal, 1, m.k)
    IN m.state = [strokes |-> Payloads(j, "stroke", {"op"}),
                  attachments |-> Payloads(j, "attach", {"op", "upload"}),
                  texts |-> Payloads(j, "text", {"op"})]

\* a late joiner's snapshot taken after an upload and the attach operation that
\* names the uploaded file
C2_Witness ==
  \E m \in InitStateMsgs :
    /\ Len(m.state.attachments) >= 2
    /\ \E i, k \in 1..Len(m.state.attachments) :
         /\ i < k
         /\ m.state.attachments[i] = UploadRecord(m.state.attachments[k].url,
                                                  m.state.attachments[k].name)
         /\ m.state.attachments[k].id # 0

\* ---- C4
\* C4: an operation whose tag is not stroke/attach/text, or that has no payload,
\* is handled without changing the canonical state and without being emitted
\* to any connection.
C4_MalformedDropped ==
  [][\A s \in Sids :
       (/\ Handled(s)
        /\ \/ ~Head(toServer[s]).isdict
           \/ Head(toServer[s]).type \notin {"stroke", "attach", "text"}
           \/ ~Head(toServer[s]).haspayload) =>
         (CANV_STATE' = CANV_STATE /\ toClient' = toClient)]_vars

\* ---- C5
\* C5: in every step each of the three lists of CANV_STATE is extended: what it
\* held stays, in place and in order.
C5_AppendOnly ==
  [][/\ IsPrefix(CANV_STATE.strokes, CANV_STATE'.strokes)
     /\ IsPrefix(CANV_STATE.attachments, CANV_STATE'.attachments)
     /\ IsPrefix(CANV_STATE.texts, CANV_STATE'.texts)]_vars

\* the store after an upload, two operations and a disconnect
C5_Witness ==
  /\ Len(CANV_STATE.strokes) + Len(CANV_STATE.attachments) + Len(CANV_STATE.texts) >= 2
  /\ \E s \in Sids : conns[s].state = "closed"

\* ---- C10
\* C10: a POST /upload without a file field is answered 400 {error: "no file"},
\* one whose write fails is answered 500 with the error message, and neither
\* changes CANV_STATE.
C10_UploadErrors ==
  [][http'.n # http.n =>
       /\ ~http'.hasfile =>
            (http'.status = 400 /\ http'.error = "no file" /\ CANV_STATE' = CANV_STATE)
       /\ (http'.hasfile /\ ~http'.saveok) =>
            (http'.status = 500 /\ http'.error # "" /\ CANV_STATE' = CANV_STATE)]_vars

\* a failed upload answered after a successful one
C10_Witness ==
  /\ http.n >= 2
  /\ http.status \in {400, 500}
  /\ CANV_STATE.attachments # << >>

\* ---- C3
\* what whiteboard connection t applied of the operations of origin a, in order
RECURSIVE AppliedFrom(_, _, _)
AppliedFrom(q, t, a) ==
  IF q = << >> THEN << >>
  ELSE (IF Head(q).sid = t /\ Head(q).from = a THEN <<Head(q).data>> ELSE << >>)
       \o AppliedFrom(Tail(q), t, a)

\* nothing is in flight towards the server or towards a whiteboard
Quiescent ==
  /\ \A s \in Live : toServer[s] = << >>
  /\ \A s \in Sids : conns[s].owner \in Clients => toClient[s] = << >>
  /\ \A c \in Clients : tkq[c] = << >>

\* C3: per-origin FIFO.  A whiteboard that was connected before the server
\* accepted anything has applied, of the operations each other connection
\* sent, a prefix of them in exactly the order sent, however the operations
\* of the others are interleaved; and once nothing is in flight between two
\* connections that are both still open it has applied all of them.
C3_PerOriginFIFO ==
  \A c \in Clients, t \in Sids, a \in Sids :
    (conns[t].owner = c /\ conns[t].joined = 0 /\ a # t) =>
      /\ IsPrefix(AppliedFrom(applied[c], t, a), sent[a])
      /\ (Quiescent /\ {t, a} \subseteq Live) => AppliedFrom(applied[c], t, a) = sent[a]

\* the whiteboard applied two operations of one origin with an operation of
\* another origin between them
C3_Witness ==
  \E c \in Clients : \E i, j, k \in 1..Len(applied[c]) :
    /\ i < j /\ j < k
    /\ applied[c][i].from = applied[c][k].from
    /\ applied[c][j].from # applied[c][i].from
    /\ applied[c][i].data # applied[c][k].data

\* ---- C9
\* the segments on_move draws for a stroke of the local user
Segments(pts) ==
  {Primitive(<<pts[i], pts[i + 1]>>, DEFAULT_COLOR, DEFAULT_WIDTH) : i \in 1..(Len(pts) - 1)}

\* the strokes with points that the server accepted, as journal positions
StrokeOps ==
  {i \in 1..Len(journal) :
     journal[i].kind = "op" /\ journal[i].type = "stroke" /\ journal[i].payload.points # << >>}

\* C9: convergence of concurrent appends.  Once nothing is in flight, every
\* stroke sent by a connected client is in the canonical strokes list; the
\* canvas of a connected whiteboard shows its own strokes and every stroke the
\* server accepted from another connection since it joined; and every such
\* stroke has been delivered to every other connected participant.
C9_Convergence ==
  Quiescent =>
    /\ \A a \in Live : \A i \in 1..Len(sent[a]) :
         (sent[a][i].isdict /\ sent[a][i].type = "stroke") =>
           \E k \in 1..Len(CANV_STATE.strokes) : CANV_STATE.strokes[k] = sent[a][i].payload
    /\ \A c \in Clients :
         CanEmit(c) =>
           LET t == collab_sio[c]
           IN /\ \A i \in 1..Len(sent[t]) :
                   sent[t][i].type = "stroke" =>
                     Segments(sent[t][i].payload.points) \subseteq SeqToSet(wb_img[c])
              /\ \A i \in StrokeOps :
                   (i > conns[t].joined /\ journal[i].sid # t) =>
                     Primitive(journal[i].payload.points, journal[i].payload.color,
                               journal[i].payload.width) \in SeqToSet(wb_img[c])
    /\ \A t \in Live : \A i \in StrokeOps :
         (conns[t].owner = Ext /\ i > conns[t].joined /\ journal[i].sid # t) =>
           \E k \in 1..Len(toClient[t]) :
             /\ toClient[t][k].event = "operation"
             /\ toClient[t][k].k = journal[i].sid
             /\ toClient[t][k].data.payload = journal[i].payload

\* the whiteboard and another participant each sent a stroke; the server
\* accepted the participant's first, the whiteboard drew its own first
C9_Witness ==
  /\ Quiescent
  /\ \E c \in Clients : \E a \in Live :
       /\ CanEmit(c)
       /\ conns[a].owner = Ext
       /\ Len(sent[a]) = 1 /\ Len(sent[collab_sio[c]]) = 1
       /\ CANV_STATE.strokes = <<sent[a][1].payload, sent[collab_sio[c]][1].payload>>
       /\ Len(wb_img[c]) >= 2
       /\ wb_img[c][1] \in Segments(sent[collab_sio[c]][1].payload.points)
       /\ Last(wb_img[c]) = Primitive(sent[a][1].payload.points, DEFAULT_COLOR, DEFAULT_WIDTH)
       /\ \E k \in 1..Len(toClient[a]) :
            /\ toClient[a][k].event = "operation"
            /\ toClient[a][k].data = sent[collab_sio[c]][1]

\* ---- C6
\* the whiteboard applies the init_state at the head of its callback queue
AppliesInitState(c) ==
  /\ tkq[c] # << >>
  /\ Head(tkq[c]).msg.event = "init_state"
  /\ tkq'[c] = Tail(tkq[c])

\* C6: applying an init_state leaves the canvas holding the snapshot and nothing
\* else (its strokes drawn on a blank bitmap, one attachment per attachment of
\* the snapshot at most, its texts) and pushes exactly one history snapshot.
C6_InitStateReplaces ==
  [][\A c \in Clients :
       AppliesInitState(c) =>
         LET state == Head(tkq[c]).msg.state
         IN /\ wb_img'[c] = DrawAll(<< >>, state.strokes)
            /\ text_objects'[c] = state.texts
            /\ Len(attachments'[c]) <= Len(state.attachments)
            /\ Len(wb_history'[c]) = history_index[c] + 2
            /\ history_index'[c] = history_index[c] + 1]_vars

\* ---- C7
\* an edit is committed on c's canvas by the local user: a text or an attachment
\* is placed, or a drag that drew something ends
LocalCommit(c) ==
  /\ tkq' = tkq
  /\ \/ Len(text_objects'[c]) > Len(text_objects[c])
     \/ Len(attachments'[c]) > Len(attachments[c])
     \/ drawing[c].active /\ ~drawing'[c].active /\ drawing[c].has_pts

\* the ids of the operations sent so far
SentIds ==
  UNION {{sent[s][i].payload.id : i \in {k \in 1..Len(sent[s]) : sent[s][k].haspayload}} :
           s \in Sids}

\* C7: every edit committed locally while connected puts exactly one operation
\* on the connection, with an id no operation carried before.
C7_EveryCommitEmitted ==
  [][\A c \in Clients :
       (LocalCommit(c) /\ CanEmit(c)) =>
         LET t == collab_sio[c]
         IN /\ Len(toServer'[t]) = Len(toServer[t]) + 1
            /\ Last(toServer'[t]).payload.id \notin SentIds \cup {0}]_vars

\* ---- C8
\* the whiteboard applies the attach operation with a url at the head of its
\* callback queue
AppliesAttachWithUrl(c) ==
  /\ tkq[c] # << >>
  /\ tkq'[c] = Tail(tkq[c])
  /\ Head(tkq[c]).msg.event = "operation"
  /\ Head(tkq[c]).msg.data.type = "attach"
  /\ GetPayload(Head(tkq[c]).msg.data).url # 0

\* C8: applying an attach operation that carries a url adds to the attachment
\* list the fetched image or, when the fetch failed, nothing.
C8_FailedFetchAddsNothing ==
  [][\A c \in Clients :
       AppliesAttachWithUrl(c) =>
         \A i \in (Len(attachments[c]) + 1)..Len(attachments'[c]) :
           HasImg(attachments'[c][i])]_vars

\* ---- C11
\* C11: upload/fetch round trip.  A POST /upload that succeeds is answered 201
\* with a url and a name under which nothing was stored before (GET of it
\* answered 404); afterwards GET /uploads/{name} answers 200 with exactly the
\* bytes uploaded, and GET of every name stored earlier answers what it
\* answered before.  GET of a name that was never stored answers 404.
C11_UploadRoundTrip ==
  [][/\ (http'.n # http.n /\ http'.status = 201) =>
          /\ http'.url = http'.name
          /\ serve_upload(http'.name, store).status = 404
          /\ serve_upload(http'.name, store') = [status |-> 200, content |-> http'.content]
          /\ \A name \in 1..Len(store) : serve_upload(name, store') = serve_upload(name, store)
     /\ \A name \in 0..(MaxInputs + 2) :
          (\A i \in 1..Len(journal) :
             journal[i].kind = "upload" => journal[i].payload.name # name) =>
            serve_upload(name, store).status = 404]_vars

\* two uploads with the same suggested file name and different bytes are both
\* stored, each under its own name
C11_Witness ==
  /\ http.status = 201
  /\ \E m, n \in 1..Len(store) :
       /\ m # n
       /\ store[m].ext = ".jpg" /\ store[n].ext = ".jpg"
       /\ serve_upload(m, store).content = "imgA"
       /\ serve_upload(n, store).content = "imgB"
       /\ http.name = n

\* ---- C12
\* C12: the whiteboard history never holds more than 30 snapshots and its
\* pointer always designates one of them; when the canvas is the newest
\* snapshot the pointer designates it; and once the user has placed 35 texts
\* or more and the pointer is on top, the history holds exactly the 30 most
\* recent snapshots (after 35 placements the canvas with 6, 7, ... 35 texts):
\* the oldest are gone, never the newest.
C12_HistoryBound ==
  \A c \in Clients :
    /\ Len(wb_history[c]) <= HISTORY_LIMIT
    /\ history_index[c] \in 0..(Len(wb_history[c]) - 1)
    /\ Last(wb_history[c]).texts = text_objects[c] =>
         history_index[c] = Len(wb_history[c]) - 1
    /\ (history_index[c] = Len(wb_history[c]) - 1
          /\ Len(text_objects[c]) >= HISTORY_LIMIT + 5) =>
         /\ Len(wb_history[c]) = HISTORY_LIMIT
         /\ \A i \in 1..HISTORY_LIMIT :
              Len(wb_history[c][i].texts) = Len(text_objects[c]) - HISTORY_LIMIT + i

\* 35 texts were placed: the history is full and its bottom is the sixth snapshot
C12_Witness ==
  \E c \in Clients :
    /\ Len(text_objects[c]) = HISTORY_LIMIT + 5
    /\ Len(wb_history[c]) = HISTORY_LIMIT
    /\ history_index[c] = HISTORY_LIMIT - 1
    /\ Len(wb_history[c][1].texts) = 6

\* ---- C13
\* the canvas of whiteboard c
CanvasOf(c) == Canvas(wb_img[c], attachments[c], text_objects[c])

\* C13: with the pointer on the bottom snapshot Undo leaves the canvas (image,
\* attachments, texts) and the pointer as they are, and with the pointer on
\* the top snapshot so does Redo; neither writes the history.
C13_UndoRedoAtBoundary ==
  \A c \in Clients :
    /\ history_index[c] = 0 =>
         undo_result(CanvasOf(c), wb_history[c], history_index[c])
           = [canvas |-> CanvasOf(c), history_index |-> history_index[c]]
    /\ history_index[c] = Len(wb_history[c]) - 1 =>
         redo_result(CanvasOf(c), wb_history[c], history_index[c])
           = [canvas |-> CanvasOf(c), history_index |-> history_index[c]]

\* the user undid down to the bottom snapshot and is drawing: the canvas is
\* not what the bottom snapshot holds
C13_Witness ==
  \E c \in Clients :
    /\ history_index[c] = 0
    /\ Len(wb_history[c]) >= 2
    /\ CanvasOf(c) # Restored(wb_history[c][1])

\* ---- C14
\* C14: a step that writes the history leaves the pointer on its last
\* snapshot, so that Redo does nothing; and unless the step is Clear, the
\* history it leaves is the snapshots up to the old pointer followed by at
\* most one new snapshot: what was above the pointer is gone.
C14_LinearHistory ==
  [][\A c \in Clients :
       wb_history'[c] # wb_history[c] =>
         LET below == SubSeq(wb_history[c], 1, history_index[c] + 1)
             canv == Canvas(wb_img'[c], attachments'[c], text_objects'[c])
         IN /\ history_index'[c] = Len(wb_history'[c]) - 1
            /\ redo_result(canv, wb_history'[c], history_index'[c])
                 = [canvas |-> canv, history_index |-> history_index'[c]]
            /\ \/ wb_history'[c] = <<SnapOf(<< >>, << >>, << >>)>>
               \/ wb_history'[c] = below
               \/ wb_history'[c] = Limit(Append(below, SnapOf(canv.img, canv.attachments,
                                                            canv.texts)))]_vars

\* a push has just dropped a snapshot that Redo could have restored
C14_Witness ==
  \E c \in Clients :
    /\ discarded[c] >= 1
    /\ Len(wb_history[c]) >= 2
    /\ history_index[c] = Len(wb_history[c]) - 1

\* ---- C15
\* the canvas of c is what its last committed snapshot holds
Committed(c) ==
  SnapOf(wb_img[c], attachments[c], text_objects[c]) = wb_history[c][history_index[c] + 1]

\* C15: whenever Undo is possible and the canvas is the last committed
\* snapshot, Undo followed at once by Redo leaves the image layer, the
\* attachment list, the text list and the pointer as they were.
C15_UndoRedoRoundTrip ==
  \A c \in Clients :
    (history_index[c] > 0 /\ Committed(c)) =>
      LET u == undo_result(CanvasOf(c), wb_history[c], history_index[c])
          r == redo_result(u.canvas, wb_history[c], u.history_index)
      IN r = [canvas |-> CanvasOf(c), history_index |-> history_index[c]]

\* ---- C16
\* the whiteboard applies the stroke, attach or text operation at the head of
\* its callback queue
AppliesOperation(c) ==
  /\ tkq[c] # << >>
  /\ tkq'[c] = Tail(tkq[c])
  /\ Head(tkq[c]).msg.event = "operation"
  /\ Head(tkq[c]).msg.data.type \in {"stroke", "attach", "text"}

\* C16: applying a received stroke, attach or text operation pushes exactly one
\* snapshot on top of the snapshots up to the pointer, and one Undo afterwards
\* restores what the canvas showed just before the operation was applied.
C16_RemoteEntersUndo ==
  [][\A c \in Clients :
       AppliesOperation(c) =>
         LET canv == Canvas(wb_img'[c], attachments'[c], text_objects'[c])
         IN /\ Len(wb_history'[c]) = history_index[c] + 2
            /\ history_index'[c] = history_index[c] + 1
            /\ undo_result(canv, wb_history'[c], history_index'[c]).canvas
                 = Restored(SnapOf(wb_img[c], attachments[c], text_objects[c]))]_vars

\* ---- C17
\* C17: a callback of the advanced enhancement that runs after the user has
\* signalled cancel pushes no history snapshot and leaves the committed image
\* as it is, wherever in the pipeline the signal arrived.
C17_CancelLeavesImage ==
  [][(afterq # << >> /\ afterq' = Tail(afterq) /\ cancel_event) =>
       (self_img' = self_img /\ img_history' = img_history)]_vars

\* ---- C18
\* a pointer move of c's drag in the mode Line or Move (the preview of a shape
\* or of a moved object)
DragPreview(c) ==
  /\ drawing[c].active
  /\ mode_var[c] \in {"Line", "Move"}
  /\ drawing'[c].moves = drawing[c].moves + 1

\* the mouse release that ends c's drag of a stroke, a shape or a selected object
DragRelease(c) ==
  /\ drawing[c].active
  /\ ~drawing'[c].active
  /\ (mode_var[c] = "Move" => drawing[c].selected # NoSel)

\* the main editor shows a new preview
EditorPreview == current_temp_img' # current_temp_img /\ current_temp_img' # NoImage

\* the main editor commits the preview it shows
EditorCommit ==
  /\ current_temp_img # NoImage
  /\ current_temp_img' = NoImage
  /\ self_img' = current_temp_img

\* C18: a preview step (a slider move in the main editor, a pointer move of a
\* shape drag or of a moved object on the whiteboard) changes neither history
\* stack nor the committed image of the main editor; a commit step (the Apply
\* button of the main editor, the mouse release on the whiteboard) pushes
\* exactly one snapshot: the stack becomes the snapshots up to the pointer
\* followed by the new one, trimmed to the limit, with the pointer on top.
C18_PreviewVersusCommit ==
  [][/\ EditorPreview => (img_history' = img_history /\ self_img' = self_img)
     /\ EditorCommit =>
          img_history' \in {Append(img_history, self_img),
                            Tail(Append(img_history, self_img))}
     /\ \A c \in Clients :
          /\ DragPreview(c) =>
               (wb_history'[c] = wb_history[c] /\ history_index'[c] = history_index[c])
          /\ DragRelease(c) =>
               LET kept == SubSeq(wb_history[c], 1, history_index[c] + 1)
                   pushed == Append(kept, SnapOf(wb_img'[c], attachments'[c],
                                                 text_objects'[c]))
               IN /\ wb_history'[c] \in {pushed, Tail(pushed)}
                  /\ history_index'[c] = Len(wb_history'[c]) - 1]_vars

\* ---- C19
\* the Socket.IO thread of the whiteboard that owns connection s takes an event
\* off the wire
Receives(s) ==
  /\ conns[s].owner \in Clients
  /\ conns' = conns
  /\ toClient[s] # << >>
  /\ toClient'[s] = Tail(toClient[s])

\* C19: the step in which a whiteboard's network thread receives an init_state
\* or an operation changes neither the canvas, the attachment list, the text
\* list nor the history of that whiteboard: it queues exactly that message
\* behind the ones queued before.  The queue of the editing context changes in
\* no other way than by such an append or by the removal of its first
\* element, the step that removes an operation applies that one operation, and
\* apart from the user's own actions only such a removal changes the canvas or
\* the history.
C19_Marshaling ==
  [][/\ \A s \in DOMAIN conns :
          Receives(s) =>
            LET c == conns[s].owner
            IN /\ CanvasOf(c)' = CanvasOf(c)
               /\ wb_history'[c] = wb_history[c]
               /\ history_index'[c] = history_index[c]
               /\ tkq'[c] = Append(tkq[c], [sid |-> s, msg |-> Head(toClient[s])])
     /\ \A c \in Clients :
          /\ tkq'[c] # tkq[c] =>
               \/ \E s \in DOMAIN conns : conns[s].owner = c /\ Receives(s)
               \/ tkq[c] # << >> /\ tkq'[c] = Tail(tkq[c])
          /\ applied'[c] # applied[c] =>
               /\ tkq[c] # << >>
               /\ tkq'[c] = Tail(tkq[c])
               /\ applied'[c] = Append(applied[c],
                                       [sid |-> Head(tkq[c]).sid,
                                        from |-> Head(tkq[c]).msg.k,
                                        data |-> Head(tkq[c]).msg.data])
          /\ (CanvasOf(c)' # CanvasOf(c) \/ wb_history'[c] # wb_history[c]) =>
               \/ tkq[c] # << >> /\ tkq'[c] = Tail(tkq[c])
               \/ inputs' # inputs \/ drawing' # drawing]_vars

\* the whiteboard has applied the snapshot and then an operation, each pushing
\* its history snapshot, and nothing is left in its queue
C19_Witness ==
  \E c \in Clients :
    /\ applied[c] # << >>
    /\ history_index[c] >= 2
    /\ tkq[c] = << >>

\* ---- C20
\* the steps of the buttons Undo, Redo and Clear that change something.  A
\* button leaves the drag state, the queue of the editing context and the
\* identifiers drawn so far as they are; among such steps only Undo lowers the
\* pointer over an unchanged stack, only Redo raises it over an unchanged
\* stack, only Clear replaces a canvas or a stack by the blank one.
ButtonStep == drawing' = drawing /\ tkq' = tkq /\ nextId' = nextId

UndoStep(c) ==
  /\ ButtonStep
  /\ wb_history'[c] = wb_history[c]
  /\ history_index'[c] = history_index[c] - 1

RedoStep(c) ==
  /\ ButtonStep
  /\ wb_history'[c] = wb_history[c]
  /\ history_index'[c] = history_index[c] + 1

ClearStep(c) ==
  /\ ButtonStep
  /\ CanvasOf(c)' = Canvas(<< >>, << >>, << >>)
  /\ wb_history'[c] = <<SnapOf(<< >>, << >>, << >>)>>
  /\ history_index'[c] = 0
  /\ (CanvasOf(c) # CanvasOf(c)' \/ wb_history[c] # wb_history'[c])

\* C20: a step of Undo, Redo or Clear on a whiteboard puts nothing on the wire
\* to the dispatcher, changes neither the canonical state, the stored files nor
\* what the dispatcher has sent to any participant, and leaves the canvas and
\* the history of every other whiteboard as they are.
C20_HistoryIsLocal ==
  [][\A c \in Clients :
       (UndoStep(c) \/ RedoStep(c) \/ ClearStep(c)) =>
         /\ toServer' = toServer
         /\ sent' = sent
         /\ CANV_STATE' = CANV_STATE
         /\ store' = store
         /\ journal' = journal
         /\ toClient' = toClient
         /\ \A d \in Clients \ {c} :
              /\ CanvasOf(d)' = CanvasOf(d)
              /\ wb_history'[d] = wb_history[d]
              /\ history_index'[d] = history_index[d]]_vars

\* the user has drawn a stroke that the dispatcher stored and relayed, and has
\* then undone it: the pointer is below the top of the stack, the stroke is
\* off the canvas and still in the canonical state
C20_Witness ==
  \E c \in Clients :
    /\ history_index[c] < Len(wb_history[c]) - 1
    /\ wb_img[c] = << >>
    /\ sent[collab_sio[c]] # << >>
    /\ CANV_STATE.strokes # << >>
    /\ \E s \in Sids : conns[s].owner = Ext /\ Len(toClient[s]) >= 2

\* ---- C21
\* the Undo button of the main editor is pressed: the latest edit that was not
\* undone is taken back
UndoesEdit == edits # << >> /\ edits' = SubSeq(edits, 1, Len(edits) - 1)

\* C21: while nothing was evicted from the main editor's history (fewer than 10
\* edits are outstanding and the history holds one snapshot more than there
\* are edits), each call of undo_last_action sets the image to the one the
\* editor held immediately before the latest edit not yet undone, so that k
\* calls in a row reach the image before the k-th most recent edit.
C21_UndoGranularity ==
  [][(UndoesEdit /\ Len(edits) < EDITOR_LIMIT /\ Len(img_history) = Len(edits) + 1) =>
       self_img' = Last(edits)]_vars

\* ---- C22
\* C22: the main editor's history never holds more than 10 snapshots, an edit
\* appends the image it replaces and evicts the oldest snapshot when there
\* would be 11, and undo_last_action called while the history holds a single
\* snapshot leaves the image as it is, also when edits are outstanding whose
\* snapshots were evicted.
C22_UndoAtBaseline ==
  [][/\ Len(img_history') <= EDITOR_LIMIT
     /\ edits' = Append(edits, self_img) =>
          img_history' = IF Len(img_history) = EDITOR_LIMIT
                           THEN Tail(Append(img_history, self_img))
                           ELSE Append(img_history, self_img)
     /\ (UndoesEdit /\ Len(img_history) = 1) => self_img' = self_img]_vars

\* ---- C23
\* C23: in every reachable state every entry of a whiteboard's attachment
\* list carries an image, so that push_history does not raise on a commit:
\* while no drag is under way, the push of the present canvas would succeed.
C23_AttachmentsCarryImages ==
  \A c \in Clients :
    /\ \A i \in 1..Len(attachments[c]) : HasImg(attachments[c][i])
    /\ ~push_history_result(wb_img[c], attachments[c], text_objects[c],
                            wb_history[c], history_index[c]).raised

\* ---- C24
\* the operation events among the messages q, oldest first, each with the
\* connection the server received it from
RECURSIVE OperationsIn(_)
OperationsIn(q) ==
  IF q = << >> THEN << >>
  ELSE (IF Head(q).event = "operation"
          THEN <<[from |-> Head(q).k, type |-> Head(q).data.type,
                  payload |-> GetPayload(Head(q).data)]>>
          ELSE << >>)
       \o OperationsIn(Tail(q))

\* the entries of q that came in on connection t
RECURSIVE OnConnection(_, _)
OnConnection(q, t) ==
  IF q = << >> THEN << >>
  ELSE (IF Head(q).sid = t THEN <<Head(q)>> ELSE << >>) \o OnConnection(Tail(q), t)

RECURSIVE AppliedOperations(_)
AppliedOperations(q) ==
  IF q = << >> THEN << >>
  ELSE <<[from |-> Head(q).from, type |-> Head(q).data.type,
          payload |-> GetPayload(Head(q).data)]>> \o AppliedOperations(Tail(q))

\* every operation the server has emitted to connection t so far, in order: the
\* ones its whiteboard applied, the ones in its editing queue, the ones on the wire
Delivered(t) ==
  (IF conns[t].owner \in Clients
     THEN AppliedOperations(OnConnection(applied[conns[t].owner], t))
          \o OperationsIn(MsgsOf(OnConnection(tkq[conns[t].owner], t)))
     ELSE << >>)
  \o OperationsIn(toClient[t])

\* the operations of other connections the server accepted after entry n of
\* the journal, in order
RECURSIVE AcceptedAfter(_, _, _)
AcceptedAfter(j, n, t) ==
  IF Len(j) <= n THEN << >>
  ELSE AcceptedAfter(SubSeq(j, 1, Len(j) - 1), n, t)
       \o (IF Last(j).kind = "op" /\ Last(j).sid # t
             THEN <<[from |-> Last(j).sid, type |-> Last(j).type,
                     payload |-> Last(j).payload]>>
             ELSE << >>)

\* C24: exactly-once catch-up.  For every live connection, however its connect
\* was interleaved with the handling of the operations of the others: the
\* snapshot it was sent holds the payload of every stroke, attach and text
\* operation the server accepted before the connect, each once and in order,
\* and the operation events emitted to it are exactly the operations of the
\* other connections accepted after the connect, each once and in order; no
\* operation is in both and none in neither.
C24_ExactlyOnceCatchUp ==
  \A t \in Live :
    /\ conns[t].joined <= Len(journal)
    /\ Delivered(t) = AcceptedAfter(journal, conns[t].joined, t)
    /\ \A i \in 1..Len(toClient[t]) :
         toClient[t][i].event = "init_state" =>
           LET j == SubSeq(journal, 1, conns[t].joined)
           IN /\ toClient[t][i].k = conns[t].joined
              /\ toClient[t][i].state.strokes = Payloads(j, "stroke", {"op"})
              /\ toClient[t][i].state.texts = Payloads(j, "text", {"op"})
              /\ toClient[t][i].state.attachments = Payloads(j, "attach", {"op", "upload"})

\* a participant connected after the server had accepted an operation of
\* another one and before it accepted the next: the first is in its snapshot,
\* the second was emitted to it
C24_Witness ==
  \E t \in Live :
    /\ conns[t].joined >= 1
    /\ journal[conns[t].joined].kind = "op"
    /\ \E i \in 1..Len(toClient[t]) :
         toClient[t][i].event = "init_state" /\ toClient[t][i].state # EmptyState
    /\ AcceptedAfter(journal, conns[t].joined, t) # << >>

\* ---- C25
\* C25: on a whiteboard that stands alone every attachment is a file the user
\* attached; through every sequence of pushes, Undo and Redo each entry of the
\* attachment list keeps the id attach_file gave it and its original image,
\* which is the image a resize re-samples from (a.get('orig_img', a['img'])).
C25_AttachmentIdentity ==
  \A c \in Clients :
    \A i \in 1..Len(attachments[c]) :
      /\ attachments[c][i].id # 0
      /\ attachments[c][i].orig_img \in Files

\* ---- C26
\* C26: after any sequence of Collab Connect actions a whiteboard holds at most
\* one live connection, and no operation it applied is one that the server
\* received from a connection of its own.
C26_OneConnection ==
  \A c \in Clients :
    /\ Cardinality({s \in Live : conns[s].owner = c}) <= 1
    /\ \A i \in 1..Len(applied[c]) : conns[applied[c][i].from].owner # c

\* ---- C27
\* the main loop runs the _finish callback of a background enhancement
FinishRuns ==
  /\ afterq # << >>
  /\ afterq' = Tail(afterq)
  /\ Head(afterq).cb = "_finish"

\* C27: when the finish callback of a background enhancement runs, every edit
\* that made the image the editor holds at that moment is part of the image it
\* holds afterwards: the callback extends the current image, it does not put
\* a result computed from an older copy in its place.
C27_EnhancementKeepsEdits ==
  [][FinishRuns => IsPrefix(self_img, self_img')]_vars

\* ---- C28
\* the whiteboard applies, from the head of its callback queue, an operation
\* that draws nothing: its type is not stroke, attach or text, or it is a
\* stroke without points
AppliesEmptyOperation(c) ==
  /\ tkq[c] # << >>
  /\ tkq'[c] = Tail(tkq[c])
  /\ Head(tkq[c]).msg.event = "operation"
  /\ LET data == Head(tkq[c]).msg.data
     IN \/ data.type \notin {"stroke", "attach", "text"}
        \/ data.type = "stroke" /\ GetPayload(data).points = << >>

\* C28: applying a received operation that draws nothing leaves the canvas, the
\* history (its snapshots, those above the pointer included) and the pointer
\* of the whiteboard as they were.
C28_EmptyOperationRecordsNothing ==
  [][\A c \in Clients :
       AppliesEmptyOperation(c) =>
         /\ CanvasOf(c)' = CanvasOf(c)
         /\ wb_history'[c] = wb_history[c]
         /\ history_index'[c] = history_index[c]]_vars

\* ---- C29
\* C29: a POST /upload whose file field is present and carries zero bytes, or
\* an empty file name, is answered with an error status, stores no file and
\* appends nothing to the canonical state.
C29_EmptyBlobRejected ==
  [][(http'.n # http.n /\ http'.hasfile /\ (http'.content = "" \/ http'.filename = "")) =>
       /\ http'.status >= 400
       /\ store' = store
       /\ CANV_STATE' = CANV_STATE]_vars

\* ---- C30
\* the whiteboard c finishes a stroke and emits it in this step
EmitsStroke(c) ==
  /\ CanEmit(c)
  /\ Len(sent'[collab_sio[c]]) = Len(sent[collab_sio[c]]) + 1
  /\ Last(sent'[collab_sio[c]]).type = "stroke"

\* C30: when a whiteboard emits a finished stroke, what a peer draws for it
\* (the same code, applying the operation or replaying it from init_state)
\* covers the points the author drew with the fill and the width the author
\* drew them with: every segment of the stroke is on the author's canvas as
\* the peer renders it, an eraser stroke in the eraser's transparent fill.
C30_StrokeFidelity ==
  [][\A c \in Clients :
       EmitsStroke(c) =>
         LET payload == GetPayload(Last(sent'[collab_sio[c]]))
             peer == DrawStroke(<< >>, payload)
             replay == DrawAll(<< >>, <<payload>>)
         IN /\ Len(peer) = 1
            /\ replay = peer
            /\ \A k \in 1..(Len(payload.points) - 1) :
                 Primitive(<<payload.points[k], payload.points[k + 1]>>,
                           peer[1].fill, peer[1].width) \in SeqToSet(wb_img[c])]_vars

====
